---- MODULE Spec2Model ----
(***************************************************************************)
(* Webhook-driven payment reconciliation of the PayNow gateway plugin.     *)
(*                                                                         *)
(* The store (payments, their transactions, row locks) is shared; every    *)
(* worker handles one notification at a time, in the steps at which the    *)
(* code reads or writes the store: the boundary (PayNowPlugin.webhook),    *)
(* the dispatch (handle_webhook), the locked lookup (_get_payment, at the  *)
(* head of the two handlers), _get_checkout, the two writers               *)
(* (_update_payment_with_new_transaction, _finalize_checkout) and the exit *)
(* of the unit of work, which releases the row locks.                      *)
(*                                                                         *)
(* The host platform's routines are collaborators.  create_transaction,    *)
(* update_payment_charge_status and gateway_postprocess are modelled by    *)
(* their effect on the payment row.  fetch_checkout_lines, the total       *)
(* calculation, complete_checkout and payment_refund_or_void are modelled  *)
(* by their outcomes, chosen nondeterministically at the call; a call of   *)
(* payment_refund_or_void returns normally, with or without a refund.      *)
(***************************************************************************)
EXTENDS Integers, Sequences, FiniteSets, TLC

\* ---------------------------------------------------------------- bounds
MaxDeliveries == 3

\* ------------------------------------------------------------- constants
Total == 2
HTTP_OK == 200
HTTP_BAD_REQUEST == 400
HTTP_NOT_FOUND == 404
HTTP_SERVER_ERROR == 500

Workers == {"w1", "w2"}
NoWorker == "nobody"
Payments == {"p1"}
UnknownId == "px"
NoPk == "none"
PaymentIds == Payments \cup {UnknownId}

NoKey == "None"
StringKeys == {"", "k1"}
SignatureKeys == StringKeys \cup {NoKey}

PaymentStatus ==
    {"NEW", "PENDING", "CONFIRMED", "EXPIRED", "REJECTED", "ERROR", "ABANDONED"}
BogusStatus == "BOGUS"

Paths == {"/notification", "/other"}

\* The totals a checkout can be recomputed to: the payment's, or less.
CheckoutTotals == {Total - 1, Total}

\* The raw request bodies: one that is not JSON, and a JSON object for every
\* payment id and every status string, a status outside the enum included.
MalformedBody == [json |-> FALSE, paymentId |-> UnknownId, status |-> BogusStatus]
Bodies ==
    {MalformedBody} \cup
    [json : {TRUE}, paymentId : PaymentIds, status : PaymentStatus \cup {BogusStatus}]

NoHeader == <<"absent">>

\* ------------------------------------------------------- signature check
\* base64(HMAC-SHA256(key, data)): a keyed hash that has no collisions on
\* the modelled keys and bodies.  A key of None has no encode().
HmacRaises(key) == key = NoKey

_calculate_hmac(key, data) == <<"b64", <<"hmac-sha256", key, data>> >>

Headers(body) ==
    {NoHeader} \cup
    {_calculate_hmac(k, b) : k \in StringKeys, b \in {body, MalformedBody}}

\* --------------------------------------------------------------- parsing
\* from_json with a status outside the enum taken as NEW.
from_json_coerces(body) ==
    IF ~body.json THEN [ok |-> FALSE, payment_id |-> UnknownId, status |-> "NEW"]
    ELSE IF body.status \notin PaymentStatus
         THEN [ok |-> TRUE, payment_id |-> body.paymentId, status |-> "NEW"]
         ELSE [ok |-> TRUE, payment_id |-> body.paymentId, status |-> body.status]

\* PaynowObject.from_json: json.loads, then PaymentStatus(data["status"]).
from_json(body) ==
    IF ~body.json THEN [ok |-> FALSE, payment_id |-> UnknownId, status |-> "NEW"]
    ELSE IF body.status \notin PaymentStatus
         THEN [ok |-> FALSE, payment_id |-> UnknownId, status |-> "NEW"]
         ELSE [ok |-> TRUE, payment_id |-> body.paymentId, status |-> body.status]

NoNotification == [payment_id |-> UnknownId, status |-> "NEW"]

\* ----------------------------------------------------------------- state
VARIABLES
    signature_key,  \* connection_params["signature_key"]
    payments,       \* Payment rows
    transactions,   \* per payment, the kinds of its Transaction rows, in order
    lockP,          \* holder of the payment row lock (select_for_update)
    lockC,          \* holder of the checkout row lock
    orders,         \* per payment, orders created by complete_checkout
    refunds,        \* per payment, calls of payment_refund_or_void
    captures,       \* per payment, calls of order_captured
    delivered,      \* notifications received so far
    pc,             \* per worker, its position
    notif,          \* per worker, the parsed notification
    req,            \* per worker, facts about the request it received
    payment,        \* per worker, the row _get_payment returned, with its log
    last,           \* per worker, the row and log as its last step left them
    calls,          \* per worker, the calls made while handling
    resp,           \* per worker, the HTTP status returned (0: none yet)
    raised,         \* per worker, whether an exception left handle_webhook
    payment_information, \* the PaymentData of the attempt being initiated
    posted,         \* the payment-creation requests sent to the processor
    results         \* what each process_payment call returned

store == <<payments, transactions, orders, refunds, captures>>
locks == <<lockP, lockC>>
initiation == <<payment_information, posted, results>>
inbound == <<payments, transactions, lockP, lockC, orders, refunds, captures,
             delivered, pc, notif, req, payment, last, calls, resp, raised>>
vars == <<signature_key, payments, transactions, lockP, lockC, orders, refunds,
          captures, delivered, pc, notif, req, payment, last, calls, resp, raised,
          payment_information, posted, results>>

ChargeStatus ==
    {"NOT_CHARGED", "PENDING", "PARTIALLY_CHARGED", "FULLY_CHARGED",
     "FULLY_REFUNDED"}

NewPayment ==
    [charge_status |-> "NOT_CHARGED", captured_amount |-> 0, total |-> Total,
     is_active |-> TRUE, order_id |-> 0, checkout_id |-> 1]

NoPayment == [pk |-> NoPk, row |-> NewPayment, txs |-> <<>>]

NoLast == [row |-> NewPayment, txs |-> <<>>]

NoCalls ==
    [handle_webhook |-> 0, get_payment |-> 0, create_transaction |-> 0,
     update_payment |-> 0, finalize_checkout |-> 0, complete_checkout |-> 0,
     refund_or_void |-> 0, order_captured |-> 0, order_captured_amount |-> 0,
     active_match |-> FALSE,
     checkout_total |-> 0, outcome |-> "none"]

NoReq ==
    [path_ok |-> FALSE, json |-> FALSE, known_status |-> FALSE,
     parsed |-> FALSE, sig_valid |-> FALSE]

\* The attempt the inbound leg starts from: initiated, nothing being retried.
InitiatedAttempt ==
    [token |-> "t1", amount |-> Total, has_return_url |-> FALSE]

InitInbound ==
    /\ payments = [p \in Payments |-> NewPayment]
    /\ transactions = [p \in Payments |-> <<"ACTION_TO_CONFIRM">>]
    /\ lockP = [p \in Payments |-> NoWorker]
    /\ lockC = [p \in Payments |-> NoWorker]
    /\ orders = [p \in Payments |-> 0]
    /\ refunds = [p \in Payments |-> 0]
    /\ captures = [p \in Payments |-> 0]
    /\ delivered = 0
    /\ pc = [w \in Workers |-> "idle"]
    /\ notif = [w \in Workers |-> NoNotification]
    /\ req = [w \in Workers |-> NoReq]
    /\ payment = [w \in Workers |-> NoPayment]
    /\ last = [w \in Workers |-> NoLast]
    /\ calls = [w \in Workers |-> NoCalls]
    /\ resp = [w \in Workers |-> 0]
    /\ raised = [w \in Workers |-> FALSE]

Init ==
    /\ signature_key \in SignatureKeys
    /\ InitInbound
    /\ payment_information = InitiatedAttempt
    /\ posted = <<>>
    /\ results = <<>>

\* ------------------------------------------------------------- boundary
\* PayNowPlugin.webhook up to the call of handle_webhook: the response it
\* returns itself (0 when it goes on to handle_webhook) and whether it raises.
WebhookBoundary(key, path, body, header) ==
    IF path # "/notification" THEN [resp |-> HTTP_NOT_FOUND, raises |-> FALSE]
    ELSE IF ~from_json(body).ok THEN [resp |-> HTTP_SERVER_ERROR, raises |-> FALSE]
    ELSE IF HmacRaises(key) THEN [resp |-> HTTP_SERVER_ERROR, raises |-> TRUE]
    ELSE IF header # _calculate_hmac(key, body)
         THEN [resp |-> HTTP_BAD_REQUEST, raises |-> FALSE]
         ELSE [resp |-> 0, raises |-> FALSE]

\* What is true of a request, whatever the boundary makes of it.
RequestFacts(key, path, body, header) ==
    [path_ok |-> path = "/notification",
     json |-> body.json,
     known_status |-> body.status \in PaymentStatus,
     parsed |-> body.json /\ body.status \in PaymentStatus,
     sig_valid |-> key \in StringKeys /\ header = _calculate_hmac(key, body)]

webhook(w) ==
    /\ pc[w] = "idle"
    /\ delivered < MaxDeliveries
    /\ \E path \in Paths, body \in Bodies :
         \E header \in Headers(body) :
           LET b == WebhookBoundary(signature_key, path, body, header) IN
           /\ req' = [req EXCEPT ![w] =
                          RequestFacts(signature_key, path, body, header)]
           /\ IF b.resp = 0
              THEN /\ notif' = [notif EXCEPT ![w] =
                                    [payment_id |-> from_json(body).payment_id,
                                     status |-> from_json(body).status]]
                   /\ pc' = [pc EXCEPT ![w] = "handle_webhook"]
                   /\ UNCHANGED <<resp, raised>>
              ELSE /\ pc' = [pc EXCEPT ![w] = "done"]
                   /\ resp' = [resp EXCEPT ![w] = b.resp]
                   /\ raised' = [raised EXCEPT ![w] = b.raises]
                   /\ UNCHANGED notif
    /\ delivered' = delivered + 1
    /\ UNCHANGED <<initiation, signature_key, store, locks, payment, last, calls>>

\* ------------------------------------------------------------- dispatch
\* Dispatch with every status but PENDING routed to the successful handler.
DispatchFoldsIntoSuccess(status) ==
    IF status = "PENDING" THEN "processing" ELSE "successful"

\* handle_webhook: the handler a status is routed to.
Dispatch(status) ==
    IF status = "CONFIRMED" THEN "successful"
    ELSE IF status = "PENDING" THEN "processing"
    ELSE "commit"

handle_webhook(w) ==
    /\ pc[w] = "handle_webhook"
    /\ pc' = [pc EXCEPT ![w] = Dispatch(notif[w].status)]
    /\ calls' = [calls EXCEPT ![w].handle_webhook = 1]
    /\ UNCHANGED <<initiation, signature_key, store, locks, delivered, notif, req, payment,
                   last, resp, raised>>

\* --------------------------------------------------------------- lookup
\* Every Transaction of payment p carries p's processor id as its token.
Token(p) == p

\* What is true of the store: an active payment with a matching transaction.
ActiveMatch(id) ==
    \E p \in Payments :
        /\ payments[p].is_active
        /\ \E i \in 1..Len(transactions[p]) : Token(p) = id

\* _get_payment without its is_active filter.
_get_payment_any(id) ==
    IF \E p \in Payments : Token(p) = id /\ Len(transactions[p]) > 0
    THEN CHOOSE p \in Payments : Token(p) = id
    ELSE NoPk

\* _get_payment: filter(transactions__token=id, is_active=True).first()
_get_payment(id) ==
    IF \E p \in Payments : Token(p) = id /\ Len(transactions[p]) > 0
                           /\ payments[p].is_active
    THEN CHOOSE p \in Payments : Token(p) = id
    ELSE NoPk

\* A lookup that does not wait for the row lock.
CanLockNoWait(lock, p, w) == TRUE

\* select_for_update: the query waits while another unit of work holds the row.
CanLock(lock, p, w) == lock[p] \in {NoWorker, w}

\* The successful branch without the test of the charge status.
SuccessfulBranchAlways(row) ==
    IF row.order_id # 0 THEN "update_payment"
    ELSE IF row.checkout_id # 0 THEN "get_checkout" ELSE "commit"

\* The branch of handle_successful_payment_intent on the payment it found.
SuccessfulBranch(row) ==
    IF row.order_id # 0
    THEN IF row.charge_status \in {"PENDING", "NOT_CHARGED"}
         THEN "update_payment" ELSE "commit"
    ELSE IF row.checkout_id # 0 THEN "get_checkout" ELSE "commit"

\* The processing branch written as a copy of the successful one.
ProcessingBranchMirrorsSuccess(row) ==
    IF row.order_id # 0
    THEN IF row.charge_status \in {"PENDING", "NOT_CHARGED"}
         THEN "update_payment" ELSE "commit"
    ELSE IF row.checkout_id # 0 THEN "get_checkout" ELSE "commit"

\* The branch of handle_processing_payment_intent on the payment it found.
ProcessingBranch(row) ==
    IF row.order_id # 0 THEN "commit"
    ELSE IF row.checkout_id # 0 THEN "get_checkout" ELSE "commit"

Lookup(w, handler) ==
    LET pk == _get_payment(notif[w].payment_id) IN
    /\ calls' = [calls EXCEPT ![w].get_payment = 1,
                              ![w].active_match = ActiveMatch(notif[w].payment_id),
                              ![w].outcome = IF pk = NoPk THEN "not_found"
                                             ELSE calls[w].outcome]
    /\ IF pk = NoPk
       THEN /\ pc' = [pc EXCEPT ![w] = "commit"]
            /\ UNCHANGED <<lockP, payment, last>>
       ELSE /\ CanLock(lockP, pk, w)
            /\ lockP' = [lockP EXCEPT ![pk] = w]
            /\ payment' = [payment EXCEPT ![w] =
                               [pk |-> pk, row |-> payments[pk],
                                txs |-> transactions[pk]]]
            /\ last' = [last EXCEPT ![w] =
                            [row |-> payments[pk], txs |-> transactions[pk]]]
            /\ pc' = [pc EXCEPT ![w] =
                         IF handler = "successful"
                         THEN SuccessfulBranch(payments[pk])
                         ELSE ProcessingBranch(payments[pk])]
    /\ UNCHANGED <<initiation, signature_key, store, lockC, delivered, notif, req, resp,
                   raised>>

handle_successful_payment_intent(w) ==
    /\ pc[w] = "successful"
    /\ Lookup(w, "successful")

handle_processing_payment_intent(w) ==
    /\ pc[w] = "processing"
    /\ Lookup(w, "processing")

\* _get_checkout: filter(payments__id=pk, payments__is_active=True).first()
_get_checkout(pk) ==
    payments[pk].checkout_id # 0 /\ payments[pk].is_active

get_checkout(w) ==
    LET pk == payment[w].pk IN
    /\ pc[w] = "get_checkout"
    /\ IF _get_checkout(pk)
       THEN /\ CanLock(lockC, pk, w)
            /\ lockC' = [lockC EXCEPT ![pk] = w]
            /\ pc' = [pc EXCEPT ![w] = "finalize_checkout"]
       ELSE /\ pc' = [pc EXCEPT ![w] = "commit"]
            /\ UNCHANGED lockC
    /\ UNCHANGED <<initiation, signature_key, store, lockP, delivered, notif, req, payment,
                   last, calls, resp, raised>>

\* -------------------------------------------------------------- writers
\* update_payment_charge_status with the comparison of the amount left to
\* charge turned around.
update_payment_charge_status_partial(mem, kind, amount) ==
    IF kind = "CAPTURE"
    THEN [mem EXCEPT
            !.captured_amount = mem.captured_amount + amount,
            !.is_active = TRUE,
            !.charge_status =
                IF mem.total - (mem.captured_amount + amount) > 0
                THEN "FULLY_CHARGED" ELSE "PARTIALLY_CHARGED"]
    ELSE IF kind = "PENDING"
    THEN [mem EXCEPT !.charge_status = "PENDING"]
    ELSE mem

\* update_payment_charge_status on the in-memory payment, for the two kinds
\* the handlers create: CAPTURE adds the amount and derives the status from
\* what is left to charge, PENDING sets the status.
update_payment_charge_status(mem, kind, amount) ==
    IF kind = "CAPTURE"
    THEN [mem EXCEPT
            !.captured_amount = mem.captured_amount + amount,
            !.is_active = TRUE,
            !.charge_status =
                IF mem.total - (mem.captured_amount + amount) <= 0
                THEN "FULLY_CHARGED" ELSE "PARTIALLY_CHARGED"]
    ELSE IF kind = "PENDING"
    THEN [mem EXCEPT !.charge_status = "PENDING"]
    ELSE mem

\* payment.save(update_fields=...): the columns the update writes to the row.
Save(row, mem, kind) ==
    IF kind = "CAPTURE"
    THEN [row EXCEPT !.charge_status = mem.charge_status,
                     !.captured_amount = mem.captured_amount,
                     !.is_active = mem.is_active]
    ELSE IF kind = "PENDING"
    THEN [row EXCEPT !.charge_status = mem.charge_status]
    ELSE row

\* _update_payment_with_new_transaction(payment, paynow_object, CAPTURE) and
\* the order_captured that follows it in handle_successful_payment_intent.
update_payment(w) ==
    LET pk == payment[w].pk
        mem == update_payment_charge_status(payment[w].row, "CAPTURE",
                                            payment[w].row.total)
        row == Save(payments[pk], mem, "CAPTURE")
        txs == Append(transactions[pk], "CAPTURE")
    IN
    /\ pc[w] = "update_payment"
    /\ transactions' = [transactions EXCEPT ![pk] = txs]
    /\ payments' = [payments EXCEPT ![pk] = row]
    /\ captures' = [captures EXCEPT ![pk] = @ + 1]
    /\ last' = [last EXCEPT ![w] = [row |-> row, txs |-> txs]]
    /\ calls' = [calls EXCEPT ![w].create_transaction = @ + 1,
                              ![w].update_payment = @ + 1,
                              ![w].order_captured = @ + 1,
                              ![w].order_captured_amount = payment[w].row.total,
                              ![w].outcome = "captured"]
    /\ pc' = [pc EXCEPT ![w] = "commit"]
    /\ UNCHANGED <<initiation, signature_key, orders, refunds, locks, delivered, notif, req,
                   payment, resp, raised>>

\* The kind of transaction each handler finalizes the checkout with.
FinalizeKind(status) == IF status = "CONFIRMED" THEN "CAPTURE" ELSE "PENDING"

\* _finalize_checkout with a drift check that only sees a greater total.
FinalizeOutcomeGreaterOnly(unavailable, checkout_total, total, completes) ==
    IF unavailable THEN "unavailable"
    ELSE IF checkout_total > total THEN "drift"
    ELSE IF completes THEN "order"
    ELSE "invalid"

\* The way _finalize_checkout ends, after its transaction is written:
\* the raise of line 116, the drift branch, or what complete_checkout does.
FinalizeOutcome(unavailable, checkout_total, total, completes) ==
    IF unavailable THEN "unavailable"
    ELSE IF checkout_total # total THEN "drift"
    ELSE IF completes THEN "order"
    ELSE "invalid"

\* payment_refund_or_void: a refund is possible for a charged, active payment;
\* the collaborator then either refunds all that was captured or leaves the
\* payment as it is.
can_refund(row) ==
    row.is_active /\ row.charge_status \in {"PARTIALLY_CHARGED", "FULLY_CHARGED"}

Refunded(row) ==
    [row EXCEPT !.captured_amount = 0, !.charge_status = "FULLY_REFUNDED",
                !.is_active = FALSE]

\* An order creation that leaves the payment attached to the checkout.
CompletedKeepsCheckout(row) == [row EXCEPT !.order_id = 1]

\* complete_checkout returning an order: the payment is attached to the order
\* and the checkout is deleted, in the one unit of work.
Completed(row) == [row EXCEPT !.order_id = 1, !.checkout_id = 0]

finalize_checkout(w) ==
    LET pk == payment[w].pk
        kind == FinalizeKind(notif[w].status)
        mem == update_payment_charge_status(payment[w].row, kind,
                                            payment[w].row.total)
        row1 == Save(payments[pk], mem, kind)
        txs1 == Append(transactions[pk], kind)
    IN
    /\ pc[w] = "finalize_checkout"
    /\ \E unavailable \in BOOLEAN, checkout_total \in CheckoutTotals,
          completes \in BOOLEAN, refunded \in BOOLEAN :
         LET outcome == FinalizeOutcome(unavailable, checkout_total,
                                        row1.total, completes)
             row2 == IF outcome = "drift" /\ refunded /\ can_refund(row1)
                     THEN Refunded(row1)
                     ELSE IF outcome = "order"
                     THEN Completed(row1)
                     ELSE row1
             txs2 == IF outcome = "drift" /\ refunded /\ can_refund(row1)
                     THEN Append(txs1, "REFUND") ELSE txs1
         IN
         /\ payments' = [payments EXCEPT ![pk] = row2]
         /\ transactions' = [transactions EXCEPT ![pk] = txs2]
         /\ last' = [last EXCEPT ![w] = [row |-> row2, txs |-> txs2]]
         /\ refunds' = [refunds EXCEPT ![pk] =
                            IF outcome = "drift" THEN @ + 1 ELSE @]
         /\ orders' = [orders EXCEPT ![pk] =
                           IF outcome = "order" THEN @ + 1 ELSE @]
         /\ raised' = [raised EXCEPT ![w] = (outcome = "unavailable")]
         /\ calls' = [calls EXCEPT
                ![w].create_transaction = @ + 1,
                ![w].finalize_checkout = @ + 1,
                ![w].checkout_total = IF unavailable THEN 0 ELSE checkout_total,
                ![w].refund_or_void = IF outcome = "drift" THEN @ + 1 ELSE @,
                ![w].complete_checkout =
                    IF outcome \in {"order", "invalid"} THEN @ + 1 ELSE @,
                ![w].outcome = outcome]
    /\ pc' = [pc EXCEPT ![w] = "commit"]
    /\ UNCHANGED <<initiation, signature_key, captures, locks, delivered, notif, req,
                   payment, resp>>

\* ------------------------------------------------------ the unit of work
\* A unit of work that rolls back when the handler raised.
transaction_with_rollback_on_errors(before, after, error) ==
    IF error THEN before ELSE after

\* transaction_with_commit_on_errors: the exception is caught inside the
\* atomic block and raised again after it, so the block commits what was
\* written, whether or not the handler raised.
transaction_with_commit_on_errors(before, after, error) == after

\* A commit that keeps the row locks of the unit of work.
ReleaseNothing(lock, w) == lock

\* The commit ends the unit of work: its row locks are released.
Release(lock, w) == [p \in Payments |-> IF lock[p] = w THEN NoWorker ELSE lock[p]]

commit(w) ==
    LET pk == payment[w].pk
        before == [row |-> payment[w].row, txs |-> payment[w].txs]
    IN
    /\ pc[w] = "commit"
    /\ IF pk = NoPk
       THEN UNCHANGED <<payments, transactions>>
       ELSE LET after == [row |-> payments[pk], txs |-> transactions[pk]]
                kept == transaction_with_commit_on_errors(before, after,
                                                          raised[w])
            IN /\ payments' = [payments EXCEPT ![pk] = kept.row]
               /\ transactions' = [transactions EXCEPT ![pk] = kept.txs]
    /\ lockP' = Release(lockP, w)
    /\ lockC' = Release(lockC, w)
    /\ resp' = [resp EXCEPT ![w] =
                    IF raised[w] THEN HTTP_SERVER_ERROR ELSE HTTP_OK]
    /\ pc' = [pc EXCEPT ![w] = "done"]
    /\ UNCHANGED <<initiation, signature_key, orders, refunds, captures, delivered, notif,
                   req, payment, last, calls, raised>>

\* The response is sent; the worker takes the next request.
respond(w) ==
    /\ pc[w] = "done"
    /\ pc' = [pc EXCEPT ![w] = "idle"]
    /\ notif' = [notif EXCEPT ![w] = NoNotification]
    /\ req' = [req EXCEPT ![w] = NoReq]
    /\ payment' = [payment EXCEPT ![w] = NoPayment]
    /\ last' = [last EXCEPT ![w] = NoLast]
    /\ calls' = [calls EXCEPT ![w] = NoCalls]
    /\ resp' = [resp EXCEPT ![w] = 0]
    /\ raised' = [raised EXCEPT ![w] = FALSE]
    /\ UNCHANGED <<initiation, signature_key, store, locks, delivered>>

Next ==
    \/ \E w \in Workers : webhook(w)
    \/ \E w \in Workers : handle_webhook(w)
    \/ \E w \in Workers : handle_successful_payment_intent(w)
    \/ \E w \in Workers : handle_processing_payment_intent(w)
    \/ \E w \in Workers : get_checkout(w)
    \/ \E w \in Workers : update_payment(w)
    \/ \E w \in Workers : finalize_checkout(w)
    \/ \E w \in Workers : commit(w)
    \/ \E w \in Workers : respond(w)

Spec == Init /\ [][Next]_vars

\* ------------------------------------------------------------- scheduling
\* A request that was accepted is served to its end: the worker runs the
\* handler whenever its next step can be taken, and a select_for_update that
\* waits is resumed once the row is free.  The arrival of requests is left to
\* the sender.
Fairness ==
    \A w \in Workers :
        /\ WF_vars(handle_webhook(w))
        /\ WF_vars(handle_successful_payment_intent(w))
        /\ WF_vars(handle_processing_payment_intent(w))
        /\ WF_vars(get_checkout(w))
        /\ WF_vars(update_payment(w))
        /\ WF_vars(finalize_checkout(w))
        /\ WF_vars(commit(w))
        /\ WF_vars(respond(w))

SpecFair == Init /\ [][Next]_vars /\ Fairness

\* ------------------------------------------------------- the outbound leg
\* PayNowPlugin.process_payment, called once per try of one payment attempt.
MaxTries == 3

Attempts ==
    [token : {"t1", "t2"}, amount : 0..Total, has_return_url : BOOLEAN]

\* response.status_code, and the paymentId of the response body ("" when the
\* body has none or is not JSON).
StatusCodes == {200, 299, 300, 500}
ResponsePaymentIds == {"", "pay-1"}

\* A key taken from what an earlier try returned, once there is one.
IdempotencyKeyFromEarlier(info, earlier) ==
    IF earlier = <<>> THEN info.token
    ELSE earlier[Len(earlier)].transaction_id

\* The Idempotency-Key header: payment_information.token.
IdempotencyKey(info, earlier) == info.token

\* The JSON body: the amount in minor units, and continueUrl when the payment
\* is found and has a return_url (a failed lookup is swallowed).
PaymentRequestData(info, found) ==
    [amount |-> info.amount * 100,
     continueUrl |-> found /\ info.has_return_url]

process_payment ==
    /\ Len(results) < MaxTries
    /\ \E found \in BOOLEAN, status_code \in StatusCodes,
          payment_id \in ResponsePaymentIds :
         LET data == PaymentRequestData(payment_information, found) IN
         IF HmacRaises(signature_key)
         THEN /\ results' = Append(results,
                      [raised |-> TRUE, is_success |-> FALSE,
                       action_required |-> FALSE, transaction_id |-> ""])
              /\ UNCHANGED posted
         ELSE /\ posted' = Append(posted,
                      [idempotency_key |->
                           IdempotencyKey(payment_information, results),
                       signature |-> _calculate_hmac(signature_key, data),
                       data |-> data])
              /\ results' = Append(results,
                      [raised |-> FALSE,
                       is_success |-> status_code >= 200 /\ status_code <= 299,
                       action_required |-> TRUE,
                       transaction_id |-> payment_id])
    /\ UNCHANGED <<signature_key, payment_information, inbound>>

InitInitiate ==
    /\ signature_key \in SignatureKeys
    /\ InitInbound
    /\ payment_information \in Attempts
    /\ posted = <<>>
    /\ results = <<>>

NextInitiate == process_payment

SpecInitiate == InitInitiate /\ [][NextInitiate]_vars

\* ================================================================ claims
Count(seq, kind) == Cardinality({i \in 1..Len(seq) : seq[i] = kind})

\* The worker holds a payment it read and its unit of work has not ended.
InUnit(w) ==
    /\ pc[w] \in {"update_payment", "get_checkout", "finalize_checkout", "commit"}
    /\ payment[w].pk # NoPk

\* The handler has returned (or raised); the unit of work is ending or over.
Handled(w) == pc[w] \in {"commit", "done"}

NoStoreCalls(w) ==
    /\ calls[w].create_transaction = 0
    /\ calls[w].update_payment = 0
    /\ calls[w].finalize_checkout = 0
    /\ calls[w].complete_checkout = 0
    /\ calls[w].refund_or_void = 0
    /\ calls[w].order_captured = 0

NoOpStatuses == {"NEW", "ABANDONED", "EXPIRED", "REJECTED", "ERROR"}

\* C1: a CONFIRMED notification handled for an active payment that is already
\* FULLY_CHARGED, owned by an order or still by its checkout, appends no
\* TransactionRecord: the payment's log is as long as it was.
C1_ReplayedConfirmedAppendsNothing ==
    \A w \in Workers :
        ( /\ pc[w] = "commit"
          /\ notif[w].status = "CONFIRMED"
          /\ payment[w].pk # NoPk
          /\ payment[w].row.charge_status = "FULLY_CHARGED" )
        => /\ calls[w].create_transaction = 0
           /\ Len(transactions[payment[w].pk]) = Len(payment[w].txs)

\* C2: once a payment's charge status is FULLY_CHARGED, no step sets it to
\* PENDING, whether the payment owns an order or still its checkout.
C2_ChargeStatusNeverRegresses ==
    [][\A p \in Payments :
          payments[p].charge_status = "FULLY_CHARGED"
          => payments'[p].charge_status # "PENDING"]_vars

\* C3: when the recomputed checkout total differs from payment.total, one
\* call of _finalize_checkout does not invoke complete_checkout, creates no
\* order, calls payment_refund_or_void exactly once and returns without
\* raising.
C3_DriftRefundsOnceAndCreatesNoOrder ==
    \A w \in Workers :
        ( /\ Handled(w)
          /\ calls[w].finalize_checkout = 1
          /\ calls[w].checkout_total # 0
          /\ calls[w].checkout_total # payment[w].row.total )
        => /\ calls[w].complete_checkout = 0
           /\ calls[w].refund_or_void = 1
           /\ ~raised[w]
           /\ pc[w] = "commit" =>
                 /\ payments[payment[w].pk].order_id = 0
                 /\ orders[payment[w].pk] = 0
                 /\ refunds[payment[w].pk] >= 1

C3_Witness ==
    \E w \in Workers :
        /\ pc[w] = "commit"
        /\ calls[w].finalize_checkout = 1
        /\ calls[w].checkout_total = Total - 1
        /\ calls[w].refund_or_void = 1

\* C4: a CONFIRMED notification that passed the signature check, for an active
\* payment that owns a checkout whose recomputed total equals payment.total
\* and whose order creation succeeds, appends exactly one TransactionRecord, a
\* CAPTURE, creates exactly one order, leaves the payment owned by the order
\* and not by the checkout, with charge status FULLY_CHARGED, and answers 200.
C4_HappyPath ==
    \A w \in Workers :
        ( /\ Handled(w)
          /\ req[w].sig_valid
          /\ notif[w].status = "CONFIRMED"
          /\ payment[w].pk # NoPk
          /\ payment[w].row.order_id = 0
          /\ payment[w].row.checkout_id # 0
          /\ calls[w].checkout_total = payment[w].row.total
          /\ calls[w].outcome = "order" )
        => /\ calls[w].create_transaction = 1
           /\ calls[w].complete_checkout = 1
           /\ calls[w].refund_or_void = 0
           /\ ~raised[w]
           /\ pc[w] = "done" => resp[w] = HTTP_OK
           /\ pc[w] = "commit" =>
                LET pk == payment[w].pk IN
                /\ transactions[pk] = Append(payment[w].txs, "CAPTURE")
                /\ Count(transactions[pk], "CAPTURE")
                       = Count(payment[w].txs, "CAPTURE") + 1
                /\ orders[pk] = 1
                /\ payments[pk].order_id # 0
                /\ payments[pk].checkout_id = 0
                /\ payments[pk].charge_status = "FULLY_CHARGED"

C4_Witness ==
    \E w \in Workers :
        /\ pc[w] = "done"
        /\ notif[w].status = "CONFIRMED"
        /\ calls[w].outcome = "order"
        /\ resp[w] = HTTP_OK
        /\ orders[payment[w].pk] = 1

\* C5: a request to /notification whose Signature header differs from the
\* base64 HMAC-SHA256 of the raw body under the configured key is answered
\* with HTTP 400, never reaches handle_webhook and writes nothing.
C5_InvalidSignatureRejectedWith400 ==
    \A w \in Workers :
        ( /\ pc[w] = "done"
          /\ signature_key \in StringKeys
          /\ req[w].path_ok
          /\ ~req[w].sig_valid )
        => /\ resp[w] = HTTP_BAD_REQUEST
           /\ calls[w].handle_webhook = 0
           /\ NoStoreCalls(w)

C7_SamePaymentSerialized ==
    /\ \A w1, w2 \in Workers :
           (w1 # w2 /\ InUnit(w1) /\ InUnit(w2))
           => payment[w1].pk # payment[w2].pk
    /\ \A w \in Workers :
           InUnit(w) => /\ lockP[payment[w].pk] = w
                        /\ payments[payment[w].pk] = last[w].row
                        /\ transactions[payment[w].pk] = last[w].txs

\* One handler holds the payment while the other waits at its lookup for the
\* same payment id.
C7_Witness ==
    \E w1, w2 \in Workers :
        /\ w1 # w2
        /\ pc[w1] = "finalize_checkout"
        /\ pc[w2] \in {"successful", "processing"}
        /\ notif[w2].payment_id = payment[w1].pk

C9_OtherStatusesAreNoOps ==
    /\ \A w \in Workers :
           ( /\ Handled(w)
             /\ calls[w].handle_webhook = 1
             /\ notif[w].status \in NoOpStatuses )
           => /\ calls[w].get_payment = 0
              /\ payment[w].pk = NoPk
              /\ NoStoreCalls(w)
              /\ ~raised[w]
              /\ pc[w] = "done" => resp[w] = HTTP_OK
    /\ \A w \in Workers :
           (pc[w] \in {"successful", "processing"})
           => notif[w].status \notin NoOpStatuses

C9_Witness ==
    \E w \in Workers :
        /\ pc[w] = "done"
        /\ req[w].sig_valid
        /\ notif[w].status = "NEW"
        /\ calls[w].handle_webhook = 1
        /\ resp[w] = HTTP_OK

\* C10: when the configured signature key is absent or empty, no notification
\* passes the signature check: handle_webhook is never called, whatever
\* Signature header the request carries.
C10_MissingSecretFailsClosed ==
    signature_key \in {NoKey, ""}
    => \A w \in Workers :
           /\ pc[w] # "handle_webhook"
           /\ calls[w].handle_webhook = 0

\* C12: every request process_payment sends for one payment attempt carries
\* the attempt's token as its Idempotency-Key, whatever the number of the try
\* and whatever the earlier tries returned: all tries present one key.
C12_StableIdempotencyKey ==
    /\ \A i \in 1..Len(posted) :
           posted[i].idempotency_key = payment_information.token
    /\ \A i, j \in 1..Len(posted) :
           posted[i].idempotency_key = posted[j].idempotency_key

\* A retry after a try that failed, the two tries answered differently.
C12_Witness ==
    /\ Len(posted) >= 2
    /\ Len(results) >= 2
    /\ ~results[1].is_success
    /\ results[1].transaction_id # results[2].transaction_id

\* C13: when the checkout cannot be turned into an order, because a variant
\* is unavailable or because complete_checkout raises a validation failure on
\* a matching total, the handling does not raise, triggers no refund-or-void,
\* keeps the appended TransactionRecord, and the webhook answers 200.
C13_OrderCreationFailureSwallowed ==
    \A w \in Workers :
        ( /\ Handled(w)
          /\ calls[w].finalize_checkout = 1
          /\ \/ calls[w].outcome = "unavailable"
             \/ /\ calls[w].outcome = "invalid"
                /\ calls[w].checkout_total = payment[w].row.total )
        => /\ ~raised[w]
           /\ calls[w].refund_or_void = 0
           /\ pc[w] = "done" => resp[w] = HTTP_OK
           /\ pc[w] = "commit" =>
                 transactions[payment[w].pk]
                     = Append(payment[w].txs, FinalizeKind(notif[w].status))

\* C14: a CONFIRMED notification for a payment that already owns an order
\* never calls _finalize_checkout.  When the charge status is PENDING or
\* NOT_CHARGED it appends exactly one CAPTURE, recomputes the charge status
\* from the captured amount and triggers order_captured once, with the amount
\* of the new record; for any other charge status it appends nothing, leaves
\* the payment as it is and does not trigger order_captured.
C14_ConfirmedForOrderOwnedPayment ==
    \A w \in Workers :
        ( /\ Handled(w)
          /\ notif[w].status = "CONFIRMED"
          /\ payment[w].pk # NoPk
          /\ payment[w].row.order_id # 0 )
        => LET pk == payment[w].pk
               pre == payment[w].row IN
           /\ calls[w].finalize_checkout = 0
           /\ calls[w].complete_checkout = 0
           /\ IF pre.charge_status \in {"PENDING", "NOT_CHARGED"}
              THEN /\ calls[w].create_transaction = 1
                   /\ calls[w].order_captured = 1
                   /\ pc[w] = "commit" =>
                        /\ transactions[pk] = Append(payment[w].txs, "CAPTURE")
                        /\ payments[pk].captured_amount
                               = pre.captured_amount + pre.total
                        /\ calls[w].order_captured_amount
                               = payments[pk].captured_amount
                                     - pre.captured_amount
                        /\ payments[pk].charge_status =
                               IF pre.total - payments[pk].captured_amount <= 0
                               THEN "FULLY_CHARGED" ELSE "PARTIALLY_CHARGED"
                        /\ payments[pk].order_id = pre.order_id
                        /\ captures[pk] >= 1
              ELSE /\ calls[w].create_transaction = 0
                   /\ calls[w].order_captured = 0
                   /\ pc[w] = "commit" =>
                        /\ transactions[pk] = payment[w].txs
                        /\ payments[pk] = pre

\* The order was created on a PENDING notification; CONFIRMED captures it.
C14_Witness ==
    \E w \in Workers :
        /\ pc[w] = "commit"
        /\ notif[w].status = "CONFIRMED"
        /\ payment[w].row.order_id # 0
        /\ payment[w].row.charge_status = "PENDING"
        /\ calls[w].order_captured = 1
        /\ payments[payment[w].pk].charge_status = "FULLY_CHARGED"

\* C15: a PENDING notification for a payment that already owns an order
\* appends nothing, leaves the charge status, the order and the checkout as
\* they are, and does not call _finalize_checkout.
C15_PendingForOrderOwnedPayment ==
    \A w \in Workers :
        ( /\ Handled(w)
          /\ notif[w].status = "PENDING"
          /\ payment[w].pk # NoPk
          /\ payment[w].row.order_id # 0 )
        => /\ NoStoreCalls(w)
           /\ ~raised[w]
           /\ pc[w] = "done" => resp[w] = HTTP_OK
           /\ pc[w] = "commit" =>
                 /\ transactions[payment[w].pk] = payment[w].txs
                 /\ payments[payment[w].pk] = payment[w].row

C15_Witness ==
    \E w \in Workers :
        /\ pc[w] = "commit"
        /\ notif[w].status = "PENDING"
        /\ payment[w].pk # NoPk
        /\ payment[w].row.order_id # 0
        /\ payment[w].row.charge_status = "PENDING"

\* C16: the signature is checked before the body is parsed: a request to
\* /notification with an invalid signature is answered 400 even when its
\* body is malformed, and a parse failure (500) is only reported for a body
\* that was correctly signed.
C16_VerificationPrecedesParsing ==
    \A w \in Workers :
        ( /\ pc[w] = "done"
          /\ signature_key \in StringKeys
          /\ req[w].path_ok )
        => /\ ~req[w].sig_valid => resp[w] = HTTP_BAD_REQUEST
           /\ (resp[w] = HTTP_SERVER_ERROR /\ ~req[w].parsed) => req[w].sig_valid

\* C17: a notification whose body is JSON with a status outside the
\* PaymentStatus enum is not turned into a notification of a known status,
\* never reaches handle_webhook, is answered with an error response and
\* writes nothing.
C17_UnknownStatusRejected ==
    \A w \in Workers :
        ( /\ pc[w] # "idle"
          /\ req[w].json
          /\ ~req[w].known_status )
        => /\ pc[w] = "done"
           /\ resp[w] \notin {0, HTTP_OK}
           /\ notif[w] = NoNotification
           /\ calls[w].handle_webhook = 0
           /\ calls[w].get_payment = 0
           /\ NoStoreCalls(w)

\* The unknown status came in a correctly signed request.
C17_Witness ==
    \E w \in Workers :
        /\ pc[w] = "done"
        /\ req[w].path_ok
        /\ req[w].json
        /\ ~req[w].known_status
        /\ req[w].sig_valid
        /\ resp[w] = HTTP_SERVER_ERROR

\* C18: a payment is never owned by both a checkout and an order; a handler
\* is at _get_checkout or _finalize_checkout only for a payment without an
\* order; and the step that gives the payment its order takes it from its
\* checkout.
C18_SingleLiveOwner ==
    /\ [](\A p \in Payments :
             ~(payments[p].order_id # 0 /\ payments[p].checkout_id # 0))
    /\ [](\A w \in Workers :
             pc[w] \in {"get_checkout", "finalize_checkout"}
             => payments[payment[w].pk].order_id = 0)
    /\ [][\A p \in Payments :
             (payments[p].order_id = 0 /\ payments'[p].order_id # 0)
             => (payments[p].checkout_id # 0 /\ payments'[p].checkout_id = 0)]_vars

C18_Witness ==
    \E p \in Payments :
        /\ payments[p].order_id # 0
        /\ payments[p].checkout_id = 0
        /\ orders[p] = 1

\* C19: over any sequence and interleaving of notifications for a payment,
\* at most one order is created for it and order_captured is triggered at
\* most once for it.
C19_NoDoubleFulfilment ==
    \A p \in Payments : orders[p] <= 1 /\ captures[p] <= 1

\* The order was created and, on a later notification, captured.
C19_Witness ==
    \E p \in Payments :
        /\ orders[p] = 1
        /\ captures[p] = 1
        /\ delivered >= 2
        /\ \A w \in Workers : pc[w] \in {"idle", "done"}

\* C20: payment_refund_or_void is triggered at most once for a payment, and
\* once it has been triggered no CAPTURE or PENDING TransactionRecord is
\* appended to that payment.
C20_AtMostOneReversal ==
    [][\A p \in Payments :
          refunds[p] >= 1
          => /\ refunds'[p] = refunds[p]
             /\ Count(transactions'[p], "CAPTURE")
                    = Count(transactions[p], "CAPTURE")
             /\ Count(transactions'[p], "PENDING")
                    = Count(transactions[p], "PENDING")]_vars

\* The row lock the worker is waiting for, as <<table, row>>, or <<>>.
WaitsFor(w) ==
    IF /\ pc[w] \in {"successful", "processing"}
       /\ _get_payment(notif[w].payment_id) # NoPk
       /\ ~CanLock(lockP, _get_payment(notif[w].payment_id), w)
    THEN <<"payment", _get_payment(notif[w].payment_id)>>
    ELSE IF /\ pc[w] = "get_checkout"
            /\ _get_checkout(payment[w].pk)
            /\ ~CanLock(lockC, payment[w].pk, w)
    THEN <<"checkout", payment[w].pk>>
    ELSE <<>>

Holder(row) == IF row[1] = "payment" THEN lockP[row[2]] ELSE lockC[row[2]]

HoldsNoLock(w) == \A p \in Payments : lockP[p] # w /\ lockC[p] # w

\* C21: a handler takes the payment row lock first and the checkout row lock
\* second, never the reverse: the checkout lock is only taken, and only held,
\* by the holder of the payment lock, and the payment lock is only taken by a
\* worker that holds no checkout lock.  No worker waits for a lock whose
\* holder is itself waiting, and under fair scheduling every handling that
\* was started ends its unit of work holding neither lock.
C21_LockOrderAndProgress ==
    /\ [](\A w \in Workers, p \in Payments : lockC[p] = w => lockP[p] = w)
    /\ [][\A w \in Workers, p \in Payments :
             /\ (lockC[p] # w /\ lockC'[p] = w)
                => (lockP[p] = w /\ lockP'[p] = w)
             /\ (lockP[p] # w /\ lockP'[p] = w)
                => (\A q \in Payments : lockC[q] # w)]_vars
    /\ [](\A w \in Workers :
             WaitsFor(w) # <<>> => WaitsFor(Holder(WaitsFor(w))) = <<>>)
    /\ \A w \in Workers :
           (pc[w] \notin {"idle", "done"})
               ~> (pc[w] = "done" /\ HoldsNoLock(w))

\* One handler holds both locks of the payment while the other waits for the
\* payment row.
C21_Witness ==
    \E w1, w2 \in Workers, p \in Payments :
        /\ w1 # w2
        /\ lockP[p] = w1
        /\ lockC[p] = w1
        /\ WaitsFor(w2) = <<"payment", p>>

====
